---- MODULE Spec2Model ----
(***************************************************************************)
(* Anonymous feedback server: the Express application of                   *)
(* src/README.md:76-294 (helmet, express.json, express-rate-limit,         *)
(* isValidPGPMessage, GET /api/public-key, POST /api/feedback, 404 and     *)
(* error handlers).                                                        *)
(*                                                                         *)
(* Strings are sequences of text chunks.  A chunk is a TLA+ string naming  *)
(* a piece of text; Weight gives the number of characters it stands for,   *)
(* so that str.length, slice, split, includes and trim are computed as     *)
(* JavaScript computes them on the text itself.                            *)
(***************************************************************************)
EXTENDS Integers, Sequences, FiniteSets, TLC

VARIABLES
  now,        \* the clock, ms since 2026-11-05T00:00:00.000Z
  rateMax,    \* apiLimiter's max, read from the environment at start
  hits,       \* apiLimiter's store: requests counted per address
  resetTime,  \* apiLimiter's store: end of the address's window (0: none)
  posts,      \* history: POST /api/feedback seen by the limiter per address and window
  keyFile,    \* public-key.asc
  file,       \* content of feedback.txt
  fileMode,   \* permissions of feedback.txt
  appended,   \* history: the appends that succeeded
  calls,      \* the handlers that have called fs.appendFile, in call order
  last,       \* the latest request and its response
  cand,       \* validator check: the candidate value
  verdict     \* validator check: isValidPGPMessage(cand), once computed

vars == <<now, rateMax, hits, resetTime, posts, keyFile, file, fileMode,
          appended, calls, last, cand, verdict>>

(***************************************************************************)
(* Text chunks                                                             *)
(***************************************************************************)
BeginMarker == "-----BEGIN PGP MESSAGE-----"
EndMarker == "-----END PGP MESSAGE-----"
KeyMarker == "-----BEGIN PGP PUBLIC KEY BLOCK-----"
HeaderLeft == "--- Feedback received on "
HeaderRight == " ---"
NL == "\n"
SP == " "
X50 == "<50 base64 characters>"
X49 == "<49 base64 characters>"
XBig == "<999898 base64 characters>"
XHuge == "<1048576 base64 characters>"
XA == "<524220 base64 characters>"
XB == "<475728 base64 characters>"
KeyBody == "<key material>"

Dates == <<"2026-11-05", "2026-11-06", "2026-11-07">>
Digit == <<"0", "1", "2", "3", "4", "5", "6", "7", "8", "9">>

\* Number of characters (UTF-16 code units) a chunk stands for.
Weight(c) ==
  CASE c = BeginMarker -> 27
    [] c = EndMarker -> 25
    [] c = KeyMarker -> 36
    [] c = HeaderLeft -> 25
    [] c = HeaderRight -> 4
    [] c = X50 -> 50
    [] c = X49 -> 49
    [] c = XBig -> 999898
    [] c = XHuge -> 1048576
    [] c = XA -> 524220
    [] c = XB -> 475728
    [] c = KeyBody -> 400
    [] c \in {Dates[i] : i \in 1..Len(Dates)} -> 10
    [] c = ":00.000Z" -> 8
    [] OTHER -> 1

IsWhitespace(c) == c \in {NL, SP}

RECURSIVE StrLen(_)
\* str.length
StrLen(s) == IF s = <<>> THEN 0 ELSE Weight(Head(s)) + StrLen(Tail(s))

\* str.includes(marker)
Includes(s, marker) == \E i \in 1..Len(s) : s[i] = marker

RECURSIVE SplitFrom(_, _, _)
SplitFrom(s, sep, cur) ==
  IF s = <<>> THEN <<cur>>
  ELSE IF Head(s) = sep THEN <<cur>> \o SplitFrom(Tail(s), sep, <<>>)
  ELSE SplitFrom(Tail(s), sep, Append(cur, Head(s)))

\* str.split(sep): the pieces between the occurrences of sep
Split(s, sep) == SplitFrom(s, sep, <<>>)

RECURSIVE TrimStart(_)
TrimStart(s) ==
  IF s # <<>> /\ IsWhitespace(Head(s)) THEN TrimStart(Tail(s)) ELSE s

RECURSIVE TrimEnd(_)
TrimEnd(s) ==
  IF s # <<>> /\ IsWhitespace(s[Len(s)])
  THEN TrimEnd(SubSeq(s, 1, Len(s) - 1)) ELSE s

\* str.trim()
Trim(s) == TrimEnd(TrimStart(s))

RECURSIVE Slice0(_, _)
\* str.slice(0, n), for n on a chunk boundary
Slice0(s, n) ==
  IF s = <<>> \/ Weight(Head(s)) > n THEN <<>>
  ELSE <<Head(s)>> \o Slice0(Tail(s), n - Weight(Head(s)))

(***************************************************************************)
(* JavaScript values of req.body.encryptedMessage                          *)
(***************************************************************************)
Str(s) == [type |-> "string", num |-> 0, str |-> s]
Num(n) == [type |-> "number", num |-> n, str |-> <<>>]
Undefined == [type |-> "undefined", num |-> 0, str |-> <<>>]
Null == [type |-> "null", num |-> 0, str |-> <<>>]
Obj == [type |-> "object", num |-> 0, str |-> <<>>]

\* typeof v
TypeOf(v) == IF v.type = "null" THEN "object" ELSE v.type

\* !v is false
Truthy(v) ==
  CASE v.type = "string" -> v.str # <<>>
    [] v.type = "number" -> v.num # 0
    [] v.type = "object" -> TRUE
    [] OTHER -> FALSE

(***************************************************************************)
(* isValidPGPMessage                                                       *)
(***************************************************************************)
MAX_MESSAGE_SIZE == 1000000
MinMessageSize == 100
MinContentSize == 50

\* str.split(BEGIN)[1]?.split(END)[0]
EnvelopeContent(s) == Split(Split(s, BeginMarker)[2], EndMarker)[1]

\* As isValidPGPMessage, with the content check off by one.
isValidPGPMessageOffByOne(v) ==
  IF TypeOf(v) # "string" THEN FALSE
  ELSE IF StrLen(v.str) > MAX_MESSAGE_SIZE THEN FALSE
  ELSE IF StrLen(v.str) < MinMessageSize THEN FALSE
  ELSE IF ~Includes(v.str, BeginMarker) \/ ~Includes(v.str, EndMarker) THEN FALSE
  ELSE IF EnvelopeContent(v.str) = <<>>
          \/ StrLen(Trim(EnvelopeContent(v.str))) <= MinContentSize THEN FALSE
  ELSE TRUE

isValidPGPMessage(v) ==
  IF TypeOf(v) # "string" THEN FALSE
  ELSE IF StrLen(v.str) > MAX_MESSAGE_SIZE THEN FALSE
  ELSE IF StrLen(v.str) < MinMessageSize THEN FALSE
  ELSE IF ~Includes(v.str, BeginMarker) \/ ~Includes(v.str, EndMarker) THEN FALSE
  ELSE IF EnvelopeContent(v.str) = <<>>
          \/ StrLen(Trim(EnvelopeContent(v.str))) < MinContentSize THEN FALSE
  ELSE TRUE

(***************************************************************************)
(* Bounds and inputs                                                       *)
(***************************************************************************)
MaxTicks == 2
MaxFineTicks == 3
MaxChunks == 5
MaxAppends == 2
MaxEnvRateLimit == 2
MaxOverLimit == 1
MaxCalls == 2

\* A client: its transport address (req.ip) and its request headers.
Clients == { [ip |-> "10.0.0.1", ua |-> "Firefox"],
             [ip |-> "10.0.0.2", ua |-> "curl"] }
Addresses == { c.ip : c \in Clients }

\* Paths as their segments: '/api/feedback' is <<"api", "feedback">>.
PublicKeyPath == <<"api", "public-key">>
FeedbackPath == <<"api", "feedback">>
RootPath == <<>>
OtherPaths == { <<"api", "nope">>, <<"nope">>, <<"api", "api", "public-key">> }

Envelope == Str(<<BeginMarker, NL, X50, NL, EndMarker>>)
Forged == Str(<<BeginMarker, X50, EndMarker, NL, HeaderLeft, Dates[1], HeaderRight, NL, X50>>)
Short99 == Str(<<X50, X49>>)
TooLong == Str(<<BeginMarker, X50, EndMarker, XBig, SP>>)
Oversize == Str(<<BeginMarker, X50, EndMarker, XHuge>>)
NearMax == Str(<<BeginMarker, XA, XB, EndMarker>>)

Messages == { Undefined, Num(7), Short99, Envelope, Forged, TooLong, Oversize }

\* Request bodies: none, JSON that does not parse, or { encryptedMessage: msg }.
NoBody == [kind |-> "none", msg |-> Undefined]
Malformed == [kind |-> "malformed", msg |-> Undefined]
Json(m) == [kind |-> "json", msg |-> m]
Bodies == { Malformed } \cup { Json(m) : m \in Messages }

KeyArmor == <<KeyMarker, NL, KeyBody, NL, "-----END PGP PUBLIC KEY BLOCK-----">>
KeyFiles == << [exists |-> FALSE, readable |-> FALSE, content |-> <<>>],
              [exists |-> TRUE, readable |-> TRUE, content |-> KeyArmor],
              [exists |-> TRUE, readable |-> TRUE, content |-> <<KeyBody>>],
              [exists |-> TRUE, readable |-> FALSE, content |-> KeyArmor] >>

(***************************************************************************)
(* Clock and new Date().toISOString()                                      *)
(***************************************************************************)
MsPerDay == 24 * 60 * 60 * 1000
MsPerHour == 60 * 60 * 1000
MsPerMinute == 60 * 1000
StartMs == 23 * MsPerHour + 30 * MsPerMinute

TwoDigits(n) == <<Digit[(n \div 10) + 1], Digit[(n % 10) + 1]>>

\* new Date(t).toISOString(), t in ms since 2026-11-05T00:00:00.000Z (UTC)
toISOString(t) ==
  <<Dates[(t \div MsPerDay) + 1], "T">>
    \o TwoDigits((t % MsPerDay) \div MsPerHour) \o <<":">>
    \o TwoDigits((t % MsPerHour) \div MsPerMinute) \o <<":00.000Z">>

\* The whole timestamp, time of day included.
dateOnlyUnsliced(t) == toISOString(t)

\* new Date().toISOString().slice(0, 10)
dateOnly(t) == Slice0(toISOString(t), 10)

\* `\n--- Feedback received on ${dateOnly} ---\n${encryptedMessage}\n`
entry(t, msg) ==
  <<NL, HeaderLeft>> \o dateOnly(t) \o <<HeaderRight, NL>> \o msg \o <<NL>>

(***************************************************************************)
(* express.json({ limit: '1mb', strict: true })                            *)
(***************************************************************************)
BodyLimit == 1048576

JsonWeight(c) == IF c = NL THEN 2 ELSE Weight(c)

RECURSIVE JsonStrLen(_)
JsonStrLen(s) == IF s = <<>> THEN 0 ELSE JsonWeight(Head(s)) + JsonStrLen(Tail(s))

\* Content-Length of {"encryptedMessage":<value>}
BodyBytes(body) ==
  CASE body.kind = "none" -> 0
    [] body.kind = "malformed" -> 21
    [] body.msg.type = "undefined" -> 2
    [] body.msg.type = "string" -> 21 + 2 + JsonStrLen(body.msg.str)
    [] OTHER -> 21 + 4

\* The parser passes the request on, or raises an error for the error handler.
ParserRejects(body) == BodyBytes(body) > BodyLimit \/ body.kind = "malformed"

(***************************************************************************)
(* apiLimiter, mounted with app.use('/api/', apiLimiter)                   *)
(***************************************************************************)
windowMs == 15 * 60 * 1000
DefaultRateLimitMax == 10

\* app.use('/api/', ...) runs the middleware for paths under /api
UnderApi(path) == Len(path) >= 1 /\ path[1] = "api"

\* req.path inside the mounted middleware: the mount point is stripped
MountedPath(path) == Tail(path)

\* skip: (req) => req.path === '/api/public-key'
skip(path) == MountedPath(path) = <<"api", "public-key">>

\* The limiter counts this request against the identity.
Counts(path) == UnderApi(path) /\ ~skip(path)

\* totalHits after the increment
HitsWith(ip) == hits[ip] + 1

\* The limiter answers 429 instead of calling next()
Limited(path, ip) == Counts(path) /\ HitsWith(ip) > rateMax

(***************************************************************************)
(* The server                                                              *)
(***************************************************************************)
\* RATE_LIMIT_MAX in the environment: unset, or a number
EnvUnset == [set |-> FALSE, n |-> 0]
RateLimitEnv == { [set |-> TRUE, n |-> k] : k \in 1..MaxEnvRateLimit }

\* parseInt(process.env.RATE_LIMIT_MAX || '10', 10)
max(env) == IF env.set THEN env.n ELSE DefaultRateLimitMax

NoClient == [ip |-> "", ua |-> ""]
NoExchange ==
  [method |-> "", path |-> <<>>, client |-> NoClient, body |-> NoBody,
   status |-> 0, error |-> "", data |-> <<>>, stage |-> "",
   counted |-> FALSE, nthPost |-> 0, append |-> "none", chmod |-> "none"]

Exchange(method, path, c, body, status, error, data, stage) ==
  [method |-> method, path |-> path, client |-> c, body |-> body,
   status |-> status, error |-> error, data |-> data, stage |-> stage,
   counted |-> hits'[c.ip] # hits[c.ip],
   nthPost |-> IF stage # "parser" /\ method = "POST" /\ path = FeedbackPath
                 THEN posts[c.ip] + 1 ELSE 0,
   append |-> "none", chmod |-> "none"]

\* The state at app.listen, but for the configuration
Start ==
  /\ now = StartMs
  /\ hits = [a \in Addresses |-> 0]
  /\ resetTime = [a \in Addresses |-> 0]
  /\ posts = [a \in Addresses |-> 0]
  /\ file = <<>>
  /\ fileMode = "absent"
  /\ appended = <<>>
  /\ calls = <<>>
  /\ last = NoExchange

\* The error handler: res.status(500).json({ error: 'Server error' })
ErrorHandler(method, path, c, body) ==
  /\ UNCHANGED <<hits, resetTime, posts>>
  /\ last' = Exchange(method, path, c, body, 500, "Server error", <<>>, "parser")

\* The limiter's store after it has seen a request that got past the parser.
LimiterStep(method, path, c) ==
  IF Counts(path)
  THEN /\ hits' = [hits EXCEPT ![c.ip] = HitsWith(c.ip)]
       /\ resetTime' = [resetTime EXCEPT ![c.ip] =
                          IF hits[c.ip] = 0 THEN now + windowMs ELSE @]
       /\ posts' = [posts EXCEPT ![c.ip] =
                      IF method = "POST" /\ path = FeedbackPath THEN @ + 1 ELSE @]
  ELSE UNCHANGED <<hits, resetTime, posts>>

\* message: { error: 'Too many requests. Please try again later.' }
TooMany(method, path, c, body) ==
  last' = Exchange(method, path, c, body, 429,
                   "Too many requests. Please try again later.", <<>>, "limiter")

\* The counter is capped so that the model is finite.
WithinModel(path, c) == Counts(path) => hits[c.ip] < rateMax + MaxOverLimit

\* app.get('/api/public-key')
PublicKeyResponse(c) ==
  IF ~keyFile.exists
  THEN Exchange("GET", PublicKeyPath, c, NoBody, 404, "Public key not available", <<>>, "publicKey")
  ELSE IF ~keyFile.readable
  THEN Exchange("GET", PublicKeyPath, c, NoBody, 500, "Server error", <<>>, "publicKey")
  ELSE IF ~Includes(keyFile.content, KeyMarker)
  THEN Exchange("GET", PublicKeyPath, c, NoBody, 500, "Invalid public key format", <<>>, "publicKey")
  ELSE Exchange("GET", PublicKeyPath, c, NoBody, 200, "", keyFile.content, "publicKey")

GetPublicKey(c) ==
  /\ WithinModel(PublicKeyPath, c)
  /\ LimiterStep("GET", PublicKeyPath, c)
  /\ IF Limited(PublicKeyPath, c.ip)
     THEN TooMany("GET", PublicKeyPath, c, NoBody)
     ELSE last' = PublicKeyResponse(c)
  /\ UNCHANGED <<now, rateMax, keyFile, file, fileMode, appended, calls, cand, verdict>>

\* As InputError, without the format check.
InputErrorUnvalidated(msg) ==
  IF ~Truthy(msg) THEN "Invalid request"
  ELSE IF TypeOf(msg) # "string" THEN "Invalid request format"
  ELSE ""

\* The 400 answers of app.post('/api/feedback'), "" when the input passes
InputError(msg) ==
  IF ~Truthy(msg) THEN "Invalid request"
  ELSE IF TypeOf(msg) # "string" THEN "Invalid request format"
  ELSE IF ~isValidPGPMessage(msg) THEN "Invalid message format"
  ELSE ""

\* As Store, with the client's address written after the entry.
StoreWithAddress(c, body, appendResult, chmodResult, createMode) ==
  IF appendResult = "ok"
  THEN /\ Len(appended) < MaxAppends
       /\ file' = file \o entry(now, body.msg.str) \o <<c.ip, NL>>
       /\ fileMode' = IF chmodResult = "ok" THEN "0600"
                      ELSE IF fileMode = "absent" THEN createMode ELSE fileMode
       /\ appended' = Append(appended, [msg |-> body.msg, at |-> now, client |-> c,
                                        offset |-> Len(file)])
       /\ last' = Exchange("POST", FeedbackPath, c, body, 200, "", <<>>, "feedback")
  ELSE /\ UNCHANGED <<file, fileMode, appended>>
       /\ last' = Exchange("POST", FeedbackPath, c, body, 500, "Server error", <<>>, "feedback")

\* The answer of the catch block to an error of fs.appendFile
AppendFailure(code) ==
  IF code = "ENOSPC" THEN [status |-> 507, error |-> "Storage full"]
  ELSE [status |-> 500, error |-> "Server error"]

\* The exchange of a handler that got as far as fs.appendFile
Stored(c, body, status, error, appendResult, chmodResult) ==
  [Exchange("POST", FeedbackPath, c, body, status, error, <<>>, "feedback")
     EXCEPT !.append = appendResult, !.chmod = chmodResult]

\* As Store, with every append failure answered 500.
StoreAlwaysServerError(c, body, appendResult, chmodResult, createMode) ==
  IF appendResult = "ok"
  THEN /\ Len(appended) < MaxAppends
       /\ file' = file \o entry(now, body.msg.str)
       /\ fileMode' = IF chmodResult = "ok" THEN "0600"
                      ELSE IF fileMode = "absent" THEN createMode ELSE fileMode
       /\ appended' = Append(appended, [msg |-> body.msg, at |-> now, client |-> c,
                                        offset |-> Len(file)])
       /\ last' = Stored(c, body, 200, "", "ok", chmodResult)
  ELSE /\ UNCHANGED <<file, fileMode, appended>>
       /\ last' = Stored(c, body, 500, "Server error", appendResult, "none")

\* As Store, with a failed chmod answered as a failed append is.
StoreChmodFatal(c, body, appendResult, chmodResult, createMode) ==
  IF appendResult = "ok"
  THEN /\ Len(appended) < MaxAppends
       /\ file' = file \o entry(now, body.msg.str)
       /\ fileMode' = IF chmodResult = "ok" THEN "0600"
                      ELSE IF fileMode = "absent" THEN createMode ELSE fileMode
       /\ appended' = Append(appended, [msg |-> body.msg, at |-> now, client |-> c,
                                        offset |-> Len(file)])
       /\ last' = IF chmodResult = "ok"
                  THEN Stored(c, body, 200, "", "ok", chmodResult)
                  ELSE Stored(c, body, 500, "Server error", "ok", chmodResult)
  ELSE /\ UNCHANGED <<file, fileMode, appended>>
       /\ last' = Stored(c, body, AppendFailure(appendResult).status,
                         AppendFailure(appendResult).error, appendResult, "none")

\* await fs.appendFile(...); try { await fs.chmod(feedbackFile, 0o600) } catch {}
\* as one step: no other request is handled meanwhile, and a failing append
\* fails before it has written anything.
Store(c, body, appendResult, chmodResult, createMode) ==
  IF appendResult = "ok"
  THEN /\ Len(appended) < MaxAppends
       /\ file' = file \o entry(now, body.msg.str)
       /\ fileMode' = IF chmodResult = "ok" THEN "0600"
                      ELSE IF fileMode = "absent" THEN createMode ELSE fileMode
       /\ appended' = Append(appended, [msg |-> body.msg, at |-> now, client |-> c,
                                        offset |-> Len(file)])
       /\ last' = Stored(c, body, 200, "", "ok", chmodResult)
  ELSE /\ UNCHANGED <<file, fileMode, appended>>
       /\ last' = Stored(c, body, AppendFailure(appendResult).status,
                         AppendFailure(appendResult).error, appendResult, "none")

\* app.post('/api/feedback')
AppendResults == {"ok", "ENOSPC", "EIO"}
ChmodResults == {"ok", "EPERM"}
CreateModes == {"0644", "0600"}

feedbackHandler(c, body) ==
  IF InputError(body.msg) # ""
  THEN /\ last' = Exchange("POST", FeedbackPath, c, body, 400, InputError(body.msg), <<>>, "feedback")
       /\ UNCHANGED <<file, fileMode, appended>>
  ELSE \/ \E m \in ChmodResults, u \in CreateModes : Store(c, body, "ok", m, u)
       \/ \E a \in AppendResults \ {"ok"} : Store(c, body, a, "ok", "0600")

PostFeedback(c, body) ==
  /\ IF ParserRejects(body)
     THEN /\ ErrorHandler("POST", FeedbackPath, c, body)
          /\ UNCHANGED <<file, fileMode, appended>>
     ELSE /\ WithinModel(FeedbackPath, c)
          /\ LimiterStep("POST", FeedbackPath, c)
          /\ IF Limited(FeedbackPath, c.ip)
             THEN /\ TooMany("POST", FeedbackPath, c, body)
                  /\ UNCHANGED <<file, fileMode, appended>>
             ELSE feedbackHandler(c, body)
  /\ UNCHANGED <<now, rateMax, keyFile, calls, cand, verdict>>

\* app.get('/'): the entry page
GetRoot(c) ==
  /\ UNCHANGED <<now, rateMax, hits, resetTime, posts, keyFile, file, fileMode,
                 appended, calls, cand, verdict>>
  /\ last' = Exchange("GET", RootPath, c, NoBody, 200, "", <<"<html>">>, "root")

\* Any other route: res.status(404).json({ error: 'Not found' })
OtherRequest(c, method, path) ==
  /\ WithinModel(path, c)
  /\ LimiterStep(method, path, c)
  /\ IF Limited(path, c.ip)
     THEN TooMany(method, path, c, NoBody)
     ELSE last' = Exchange(method, path, c, NoBody, 404, "Not found", <<>>, "notFound")
  /\ UNCHANGED <<now, rateMax, keyFile, file, fileMode, appended, calls, cand, verdict>>

\* Time passes; the limiter's store drops the windows that have ended.
Tick(step) ==
  /\ now' = now + step
  /\ hits' = [a \in Addresses |-> IF resetTime[a] <= now' THEN 0 ELSE hits[a]]
  /\ posts' = [a \in Addresses |-> IF resetTime[a] <= now' THEN 0 ELSE posts[a]]
  /\ resetTime' = [a \in Addresses |-> IF resetTime[a] <= now' THEN 0 ELSE resetTime[a]]
  /\ UNCHANGED <<rateMax, keyFile, file, fileMode, appended, calls, last, cand, verdict>>

\* One step of the server: a request from one of `clients`, or time passing.
Serve(clients, bodies, paths, step, ticks) ==
  \/ \E c \in clients : GetPublicKey(c)
  \/ \E c \in clients, body \in bodies : PostFeedback(c, body)
  \/ \E c \in clients : GetRoot(c)
  \/ \E c \in clients, method \in {"GET", "POST"}, path \in paths :
        OtherRequest(c, method, path)
  \/ now < StartMs + ticks * step /\ Tick(step)

(***************************************************************************)
(* Submissions over time: one address, every body, the configured maximum, *)
(* windows that end at every tick (23:30, 23:45, 00:00, ...)               *)
(***************************************************************************)
OneClient == { c \in Clients : c.ip = "10.0.0.1" }

Init ==
  /\ Start
  /\ rateMax \in { max(env) : env \in RateLimitEnv }
  /\ keyFile = KeyFiles[2]
  /\ cand = Undefined
  /\ verdict = "none"

Next == Serve(OneClient, Bodies, {<<"nope">>}, windowMs, MaxTicks)

Spec == Init /\ [][Next]_vars

(***************************************************************************)
(* Submissions of two clients at one instant                               *)
(***************************************************************************)
NextClients ==
  \/ \E c \in Clients : GetPublicKey(c)
  \/ \E c \in Clients, body \in {Json(Short99), Json(Envelope)} : PostFeedback(c, body)
  \/ \E c \in Clients : GetRoot(c)
  \/ \E c \in Clients, method \in {"GET", "POST"} : OtherRequest(c, method, <<"nope">>)

SpecClients == Init /\ [][NextClients]_vars

(***************************************************************************)
(* The limiter: one address, every route, every key file, the default and  *)
(* the configured maximum, windows that last three ticks                   *)
(***************************************************************************)
InitLimiter ==
  /\ Start
  /\ rateMax \in { max(env) : env \in RateLimitEnv \cup {EnvUnset} }
  /\ keyFile \in { KeyFiles[i] : i \in 1..Len(KeyFiles) }
  /\ cand = Undefined
  /\ verdict = "none"

NextLimiter ==
  Serve(OneClient, {Json(Short99), Json(Envelope)}, OtherPaths,
        windowMs \div 3, MaxFineTicks)

SpecLimiter == InitLimiter /\ [][NextLimiter]_vars

(***************************************************************************)
(* The validator alone, on every value of up to MaxChunks chunks           *)
(***************************************************************************)
Alphabet == {BeginMarker, EndMarker, X50, X49, SP, XBig}
Strings == UNION { [1..n -> Alphabet] : n \in 0..MaxChunks }
Candidates == {Undefined, Null, Num(0), Num(7), Obj} \cup { Str(s) : s \in Strings }

InitValidator ==
  /\ Start
  /\ rateMax = DefaultRateLimitMax
  /\ keyFile = KeyFiles[2]
  /\ cand \in Candidates
  /\ verdict = "none"

\* if (!isValidPGPMessage(encryptedMessage)) ...
Validate ==
  /\ verdict = "none"
  /\ verdict' = IF isValidPGPMessage(cand) THEN "accept" ELSE "reject"
  /\ UNCHANGED <<now, rateMax, hits, resetTime, posts, keyFile, file, fileMode,
                 appended, calls, last, cand>>

NextValidator == Validate

SpecValidator == InitValidator /\ [][NextValidator]_vars

(***************************************************************************)
(* Submissions handled concurrently: the handler runs up to its call of    *)
(* fs.appendFile and the event loop goes on to other requests.  appendFile *)
(* opens the file with flag 'a', then writes the data with one awaited     *)
(* write() per kWriteFileMaxChunkSize bytes; each write lands at the end   *)
(* of the file (O_APPEND).  The thread pool completes the opens and writes *)
(* of different calls in any order.                                        *)
(***************************************************************************)
kWriteFileMaxChunkSize == 512 * 1024

\* The handler has built its entry and called fs.appendFile.
beginAppend(c, body) ==
  /\ Len(calls) < MaxCalls
  /\ calls' = Append(calls,
       [x |-> Exchange("POST", FeedbackPath, c, body, 0, "", <<>>, "feedback"),
        at |-> now, data |-> entry(now, body.msg.str), rest |-> entry(now, body.msg.str),
        pos |-> <<>>, phase |-> "open", status |-> 0])
  /\ UNCHANGED <<file, fileMode, appended, last>>

\* app.post('/api/feedback') up to `await fs.appendFile(...)`
SubmitFeedback(c, body) ==
  /\ IF ParserRejects(body)
     THEN /\ ErrorHandler("POST", FeedbackPath, c, body)
          /\ UNCHANGED <<file, fileMode, appended, calls>>
     ELSE /\ WithinModel(FeedbackPath, c)
          /\ LimiterStep("POST", FeedbackPath, c)
          /\ IF Limited(FeedbackPath, c.ip)
             THEN /\ TooMany("POST", FeedbackPath, c, body)
                  /\ UNCHANGED <<file, fileMode, appended, calls>>
             ELSE IF InputError(body.msg) # ""
             THEN /\ last' = Exchange("POST", FeedbackPath, c, body, 400,
                                      InputError(body.msg), <<>>, "feedback")
                  /\ UNCHANGED <<file, fileMode, appended, calls>>
             ELSE beginAppend(c, body)
  /\ UNCHANGED <<now, rateMax, keyFile, cand, verdict>>

\* appendFile rejects: the handler's catch block answers.
AppendFails(i, code) ==
  /\ calls' = [calls EXCEPT ![i].phase = "done",
                            ![i].status = AppendFailure(code).status]
  /\ last' = [calls[i].x EXCEPT !.status = AppendFailure(code).status,
                                !.error = AppendFailure(code).error,
                                !.append = code]
  /\ UNCHANGED <<file, fileMode, appended>>

\* open(feedbackFile, 'a'): creates the file when it is not there
OpenLog(i, result, createMode) ==
  /\ calls[i].phase = "open"
  /\ IF result = "ok"
     THEN /\ fileMode' = IF fileMode = "absent" THEN createMode ELSE fileMode
          /\ calls' = [calls EXCEPT ![i].phase = "write"]
          /\ UNCHANGED <<file, appended, last>>
     ELSE AppendFails(i, result)
  /\ UNCHANGED <<now, rateMax, hits, resetTime, posts, keyFile, cand, verdict>>

\* One write() of appendFile's loop: the next kWriteFileMaxChunkSize bytes
WriteChunk(i, result) ==
  /\ calls[i].phase = "write"
  /\ IF result = "ok"
     THEN LET piece == Slice0(calls[i].rest, kWriteFileMaxChunkSize)
              rest == SubSeq(calls[i].rest, Len(piece) + 1, Len(calls[i].rest))
              pos == calls[i].pos \o [k \in 1..Len(piece) |-> Len(file) + k]
          IN /\ file' = file \o piece
             /\ calls' = [calls EXCEPT ![i].rest = rest, ![i].pos = pos,
                            ![i].phase = IF rest = <<>> THEN "chmod" ELSE "write"]
             /\ appended' = IF rest = <<>>
                            THEN Append(appended,
                                   [msg |-> calls[i].x.body.msg, at |-> calls[i].at,
                                    client |-> calls[i].x.client, offset |-> pos[1] - 1])
                            ELSE appended
             /\ UNCHANGED <<fileMode, last>>
     ELSE AppendFails(i, result)
  /\ UNCHANGED <<now, rateMax, hits, resetTime, posts, keyFile, cand, verdict>>

\* try { await fs.chmod(feedbackFile, 0o600) } catch {}; res.json({ success: true })
SetMode(i, result) ==
  /\ calls[i].phase = "chmod"
  /\ fileMode' = IF result = "ok" THEN "0600" ELSE fileMode
  /\ calls' = [calls EXCEPT ![i].phase = "done", ![i].status = 200]
  /\ last' = [calls[i].x EXCEPT !.status = 200, !.append = "ok", !.chmod = result]
  /\ UNCHANGED <<now, rateMax, hits, resetTime, posts, keyFile, file, appended,
                 cand, verdict>>

AsyncBodies == { Malformed, Json(Short99), Json(Envelope), Json(NearMax) }

NextAsync ==
  \/ \E c \in Clients, body \in AsyncBodies : SubmitFeedback(c, body)
  \/ \E i \in 1..Len(calls), a \in AppendResults, u \in CreateModes : OpenLog(i, a, u)
  \/ \E i \in 1..Len(calls), a \in AppendResults : WriteChunk(i, a)
  \/ \E i \in 1..Len(calls), m \in ChmodResults : SetMode(i, m)

SpecAsync == Init /\ [][NextAsync]_vars

(***************************************************************************)
(* Reading the log back                                                    *)
(***************************************************************************)
\* The i-th successful append's bytes, as they are in feedback.txt now.
EntryBytes(i) ==
  SubSeq(file, appended[i].offset + 1,
         IF i < Len(appended) THEN appended[i + 1].offset ELSE Len(file))

\* The UTC calendar date of an instant, YYYY-MM-DD.
CalendarDate(t) == Dates[(t \div MsPerDay) + 1]
TimeOfDay(t) == t % MsPerDay

\* A delimiter line: "--- Feedback received on <date> ---" and nothing else.
IsDelimiterLine(line) ==
  \E i \in 1..Len(Dates) : line = <<HeaderLeft, Dates[i], HeaderRight>>

RECURSIVE Join(_)
\* lines.join("\n")
Join(lines) ==
  IF lines = <<>> THEN <<>>
  ELSE IF Len(lines) = 1 THEN lines[1]
  ELSE lines[1] \o <<NL>> \o Join(Tail(lines))

RECURSIVE Groups(_, _, _)
\* The lines after each delimiter line, up to the next delimiter line.
Groups(lines, cur, open) ==
  IF lines = <<>> THEN (IF open THEN <<cur>> ELSE <<>>)
  ELSE IF IsDelimiterLine(Head(lines))
       THEN (IF open THEN <<cur>> ELSE <<>>) \o Groups(Tail(lines), <<>>, TRUE)
  ELSE Groups(Tail(lines), Append(cur, Head(lines)), open)

\* An entry's text: its lines without the blank line that ends it.
EntryText(group) ==
  IF group # <<>> /\ group[Len(group)] = <<>>
  THEN Join(SubSeq(group, 1, Len(group) - 1)) ELSE Join(group)

\* The log split at its delimiter lines: one text per entry.
ParseLog(content) ==
  LET groups == Groups(Split(content, NL), <<>>, FALSE)
  IN [i \in 1..Len(groups) |-> EntryText(groups[i])]

(***************************************************************************)
(* Properties of the submissions                                           *)
(***************************************************************************)
IsFeedbackPost(x) == x.method = "POST" /\ x.path = FeedbackPath

C4_LogSplitsIntoAcceptedPayloads ==
  ParseLog(file) = [i \in 1..Len(appended) |-> appended[i].msg.str]

RECURSIVE ExpectedLog(_)
\* What the log holds when it is a function of the dates and payloads alone.
ExpectedLog(entries) ==
  IF entries = <<>> THEN <<>>
  ELSE <<NL, HeaderLeft, CalendarDate(Head(entries).at), HeaderRight, NL>>
         \o Head(entries).msg.str \o <<NL>> \o ExpectedLog(Tail(entries))

\* C6: the log is determined by the accepted payloads and their dates; the
\* client's address and headers are not in it.
C6_LogIndependentOfClient ==
  /\ file = ExpectedLog(appended)
  /\ \A k \in 1..Len(file), c \in Clients : file[k] # c.ip /\ file[k] # c.ua

C6_Witness ==
  \E i, j \in 1..Len(appended) :
    /\ appended[i].msg = appended[j].msg
    /\ CalendarDate(appended[i].at) = CalendarDate(appended[j].at)
    /\ appended[i].client.ip # appended[j].client.ip
    /\ appended[i].client.ua # appended[j].client.ua
    /\ EntryBytes(i) = EntryBytes(j)

\* What the validator is to reject: a value that is no string, a string
\* outside the length limits, one that lacks a marker, or one whose text
\* between the first begin marker and the first end marker after it is,
\* trimmed, shorter than the minimum.
Positions(s, marker) == { i \in 1..Len(s) : s[i] = marker }
Min(S) == CHOOSE x \in S : \A y \in S : x <= y
FirstBegin(s) == Min(Positions(s, BeginMarker))
EndsAfter(s, b) == { e \in Positions(s, EndMarker) : e > b }
HasEnvelope(s) ==
  Positions(s, BeginMarker) # {} /\ EndsAfter(s, FirstBegin(s)) # {}
Between(s) == SubSeq(s, FirstBegin(s) + 1, Min(EndsAfter(s, FirstBegin(s))) - 1)

MustReject(v) ==
  \/ TypeOf(v) # "string"
  \/ StrLen(v.str) < 100
  \/ StrLen(v.str) > 1000000
  \/ Positions(v.str, BeginMarker) = {}
  \/ Positions(v.str, EndMarker) = {}
  \/ HasEnvelope(v.str) /\ StrLen(Trim(Between(v.str))) < 50

\* C9: a POST /api/feedback that carries a value the validator is to reject
\* (and is not turned away by the rate limiter) is answered 400.
C9_RejectedValueAnswered400 ==
  (/\ IsFeedbackPost(last)
   /\ last.body.kind = "json"
   /\ MustReject(last.body.msg)
   /\ last.status # 429)
  => last.status = 400

(***************************************************************************)
(* Properties of the limiter and of the public key                         *)
(***************************************************************************)
IsPublicKeyGet(x) == x.method = "GET" /\ x.path = PublicKeyPath

\* C2: GET /api/public-key is never answered 429 and never adds to the
\* address's rate-limit counter.
C2_PublicKeyExempt ==
  IsPublicKeyGet(last) => last.status # 429 /\ ~last.counted

\* C3: of an address's POST /api/feedback requests inside one window, the
\* first N reach the handler and the (N+1)-th is answered 429 with nothing
\* appended; the first one after the window has ended is again the first.
C3_FirstNPostsReachHandler ==
  (IsFeedbackPost(last) /\ last.stage # "parser") =>
    /\ last.nthPost <= rateMax => last.stage = "feedback" /\ last.status # 429
    /\ last.nthPost = rateMax + 1 => last.stage = "limiter" /\ last.status = 429

\* C10: GET /api/public-key is answered 404 when the key file is absent, 500
\* when it is there without the public-key marker, and 200 with the file's
\* content only when it is there with the marker: three outcomes, decided by
\* the key file.
C10_PublicKeyOutcomes ==
  IsPublicKeyGet(last) =>
    /\ last.status \in {200, 404, 500}
    /\ ~keyFile.exists => last.status = 404
    /\ (keyFile.exists /\ ~Includes(keyFile.content, KeyMarker)) => last.status = 500
    /\ last.status = 200 =>
         /\ keyFile.exists /\ Includes(keyFile.content, KeyMarker)
         /\ last.data = keyFile.content

(***************************************************************************)
(* Properties of the validator                                             *)
(***************************************************************************)
Count(s, marker) == Cardinality(Positions(s, marker))

\* C7: the validator accepts only strings with exactly one begin marker and
\* exactly one end marker, the begin marker before the end marker.
C7_AcceptsOnlyOneEnvelope ==
  verdict = "accept" =>
    /\ Count(cand.str, BeginMarker) = 1
    /\ Count(cand.str, EndMarker) = 1
    /\ \A b \in Positions(cand.str, BeginMarker), e \in Positions(cand.str, EndMarker) : b < e

InLengthLimits(v) ==
  TypeOf(v) = "string" /\ StrLen(v.str) >= 100 /\ StrLen(v.str) <= 1000000

\* C8, as stated: the validator accepts every string within the length
\* limits in which some begin marker is followed by an end marker with at
\* least 50 characters of trimmed content between the two.
C8_AcceptsAnyMarkedContent ==
  (/\ verdict # "none"
   /\ InLengthLimits(cand)
   /\ \E b \in Positions(cand.str, BeginMarker), e \in Positions(cand.str, EndMarker) :
        b < e /\ StrLen(Trim(SubSeq(cand.str, b + 1, e - 1))) >= 50)
  => verdict = "accept"

\* C8, amended: the validator accepts every string within the length limits
\* that has exactly one begin marker, followed by an end marker, with at
\* least 50 characters of trimmed content between the begin marker and the
\* first end marker after it.
C8_AcceptsSingleBeginEnvelope ==
  (/\ verdict # "none"
   /\ InLengthLimits(cand)
   /\ Count(cand.str, BeginMarker) = 1
   /\ HasEnvelope(cand.str)
   /\ StrLen(Trim(Between(cand.str))) >= 50)
  => verdict = "accept"

C8_Witness ==
  /\ verdict = "accept"
  /\ InLengthLimits(cand)
  /\ Count(cand.str, BeginMarker) = 1
  /\ HasEnvelope(cand.str)
  /\ StrLen(Trim(Between(cand.str))) = 50
  /\ StrLen(cand.str) = 1000000

(***************************************************************************)
(* Properties of the responses                                             *)
(***************************************************************************)
\* C11: when the append of a validated payload fails, the answer is never
\* 200: it is 507 exactly when the failure is ENOSPC and 500 otherwise.
C11_AppendFailureStatus ==
  (IsFeedbackPost(last) /\ last.append \notin {"none", "ok"}) =>
    /\ last.status # 200
    /\ last.status = 507 <=> last.append = "ENOSPC"
    /\ last.append # "ENOSPC" => last.status = 500

C11_Witness ==
  /\ IsFeedbackPost(last) /\ isValidPGPMessage(last.body.msg)
  /\ last.append = "ENOSPC" /\ last.status = 507
  /\ appended # <<>>

\* C12: a POST /api/feedback whose body is over the body limit is turned
\* away before the validator and the store run, with a 4xx status.
C12_OversizeBodyIsClientError ==
  (IsFeedbackPost(last) /\ BodyBytes(last.body) > BodyLimit) =>
    /\ last.stage # "feedback"
    /\ last.append = "none"
    /\ last.status \in 400..499

IsOtherRoute(x) ==
  /\ x.method # ""
  /\ ~IsPublicKeyGet(x)
  /\ ~IsFeedbackPost(x)
  /\ ~(x.method = "GET" /\ x.path = RootPath)

\* C13: a request for any other route is answered 404 { error: 'Not found' },
\* whatever the state of the server and of the address's rate limit.
C13_OtherRoutesNotFound ==
  IsOtherRoute(last) => last.status = 404 /\ last.error = "Not found"

IsInputRejection(x) ==
  IsFeedbackPost(x) /\ x.stage = "feedback" /\ x.status = 400

\* C14: the body of a failed submission holds no part of the payload, and
\* two submissions rejected as client input errors get the same body.
C14_GenericErrorBodies ==
  [][/\ (IsFeedbackPost(last') /\ last'.status # 200) =>
          \A k \in 1..Len(last'.body.msg.str) : last'.error # last'.body.msg.str[k]
     /\ (IsInputRejection(last) /\ IsInputRejection(last')) =>
          last'.error = last.error]_vars

\* C18: when the append succeeds and chmod fails, the answer is 200 and the
\* entry is in the log.
C18_ChmodFailureStillSucceeds ==
  (IsFeedbackPost(last) /\ last.append = "ok" /\ last.chmod # "ok") =>
    /\ last.status = 200
    /\ appended # <<>>
    /\ appended[Len(appended)].msg = last.body.msg
    /\ EntryBytes(Len(appended)) = entry(appended[Len(appended)].at, last.body.msg.str)

C18_Witness ==
  /\ IsFeedbackPost(last) /\ last.append = "ok" /\ last.chmod = "EPERM"
  /\ last.status = 200
  /\ fileMode = "0644"

\* C19: a POST /api/feedback meets the rate limiter before its body is
\* parsed: one with an oversized or malformed body is counted against its
\* address, and one from an address over its limit is answered 429.
C19_LimiterBeforeParser ==
  IsFeedbackPost(last) =>
    /\ ParserRejects(last.body) => last.counted
    /\ (hits[last.client.ip] - (IF last.counted THEN 1 ELSE 0) >= rateMax)
         => last.status = 429

(***************************************************************************)
(* Properties of concurrent appends                                        *)
(***************************************************************************)
\* C15: the bytes each call of appendFile has written are one contiguous
\* range of the log, holding its entry and nothing of another call.
C15_EntriesAreContiguous ==
  \A i \in 1..Len(calls) :
    LET pos == calls[i].pos
    IN /\ \A k \in 1..(Len(pos) - 1) : pos[k + 1] = pos[k] + 1
       /\ [k \in 1..Len(pos) |-> file[pos[k]]] = SubSeq(calls[i].data, 1, Len(pos))

\* C16: of two handlers, the one that called appendFile first has its entry
\* first in the log.
C16_LogOrderIsCallOrder ==
  \A i, j \in 1..Len(calls) :
    (i < j /\ calls[i].pos # <<>> /\ calls[j].pos # <<>>)
    => calls[i].pos[1] < calls[j].pos[1]

\* C17: whenever the log holds an entry, its permissions are 0600.
C17_LogIsOwnerOnly ==
  appended # <<>> => fileMode = "0600"

\* C20: a submission answered 200 has appended its one entry, whole, before
\* the answer; a submission answered with an error has written nothing.
C20_CommittedOrUnchanged ==
  \A i \in 1..Len(calls) :
    /\ calls[i].status = 200 =>
         /\ calls[i].rest = <<>>
         /\ [k \in 1..Len(calls[i].pos) |-> file[calls[i].pos[k]]] = calls[i].data
    /\ calls[i].status \notin {0, 200} => calls[i].pos = <<>>

====
